---- MODULE Spec2Model ----
(***************************************************************************)
(* Model of ts-res (src/lib/main.ts, lines 1-126): the Result value built  *)
(* by Ok / Err and its four accessors throw / else / or / and.             *)
(*                                                                         *)
(* JavaScript values are records [k, s, n]: k is the typeof tag, s the     *)
(* text of a string, n a number or the heap address of an object.  Error   *)
(* objects live in a heap so that identity and in-place mutation of the    *)
(* message field are observable.                                           *)
(***************************************************************************)
EXTENDS Integers, Sequences, FiniteSets, TLC

\* ---- bounds ----
MaxObjs == 2
MaxResults == 2

\* ---- values ----
Undefined == [k |-> "undefined", s |-> "", n |-> 0]
Str(x) == [k |-> "string", s |-> x, n |-> 0]
Num(x) == [k |-> "number", s |-> "", n |-> x]
Ref(o) == [k |-> "object", s |-> "", n |-> o]

\* new Error(text) built inside the library: an object at no address of the
\* caller's heap, held by nobody else, so it carries its message itself
FreshError(text) == [k |-> "object", s |-> text, n |-> 0]

typeof(v) == v.k

\* JavaScript truthiness, as used by `||` and `if (message)`
Truthy(v) ==
  CASE v.k = "undefined" -> FALSE
    [] v.k = "string" -> v.s /= ""
    [] v.k = "number" -> v.n /= 0
    [] OTHER -> TRUE

\* a || b
OrElse(a, b) == IF Truthy(a) THEN a ELSE b

defaultMessage == "There was an error! No specific error message was provided."

Strings == {"", "Low"}
Overrides == {"", "My Custom Message"}
Texts == {"Couldn't convert abc to number"}

Addrs == 1..MaxObjs
NoObj == [live |-> FALSE, message |-> "", name |-> ""]

\* new Error(message): name stands for the fields other than message
NewErrorObj(message) == [live |-> TRUE, message |-> message, name |-> "Error"]

Live(h) == {o \in Addrs : h[o].live}
Fresh(h) == CHOOSE o \in Addrs \ Live(h) : \A p \in Addrs \ Live(h) : o <= p

\* ---- callbacks handed to else / and ----
Callbacks == {"lowOrHigh", "undef"}

Call(callback, arg) ==
  CASE callback = "lowOrHigh" -> IF arg = Str("Low") THEN Num(0) ELSE Num(100)
    [] OTHER -> Undefined

\* ---- the library ----
\* variant of Ok that also populates the error channel
OkWithError(data) ==
  [ok |-> TRUE, data |-> data, error |-> Undefined,
   throw |-> "throwErr", else |-> "elseDo", or |-> "or", and |-> "and"]

Ok(data) ==
  [ok |-> TRUE, data |-> data,
   throw |-> "throwErr", else |-> "elseDo", or |-> "or", and |-> "and"]

\* variant of Err that also populates the data channel
ErrWithData(error) ==
  [ok |-> FALSE, error |-> error, data |-> Undefined,
   throw |-> "throwErr", else |-> "elseDo", or |-> "or", and |-> "and"]

Err(error) ==
  [ok |-> FALSE, error |-> error,
   throw |-> "throwErr", else |-> "elseDo", or |-> "or", and |-> "and"]

\* variant of throwErr whose guard is `!this.ok || message`
throwErrOnMessage(self, message, h) ==
  IF ~self.ok \/ Truthy(message)
  THEN IF ~self.ok /\ typeof(self.error) = "object"
       THEN LET h2 == IF Truthy(message)
                      THEN [h EXCEPT ![self.error.n].message = message.s]
                      ELSE h
            IN [raised |-> TRUE, value |-> self.error, heap |-> h2, calls |-> <<>>]
       ELSE LET err == IF self.ok THEN Undefined ELSE self.error
                text == OrElse(OrElse(message, err), Str(defaultMessage))
            IN [raised |-> TRUE, value |-> FreshError(text.s), heap |-> h,
                calls |-> <<>>]
  ELSE [raised |-> FALSE, value |-> self.data, heap |-> h, calls |-> <<>>]

\* variant of throwErr that assigns the message field without `if (message)`
throwErrAlwaysAssign(self, message, h) ==
  IF ~self.ok
  THEN IF typeof(self.error) = "string" \/ typeof(self.error) = "undefined"
       THEN LET text == OrElse(OrElse(message, self.error), Str(defaultMessage))
            IN [raised |-> TRUE, value |-> FreshError(text.s), heap |-> h,
                calls |-> <<>>]
       ELSE [raised |-> TRUE, value |-> self.error,
             heap |-> [h EXCEPT ![self.error.n].message = message.s],
             calls |-> <<>>]
  ELSE [raised |-> FALSE, value |-> self.data, heap |-> h, calls |-> <<>>]

\* variant of throwErr written as `this.error.message = message || defaultMessage`
throwErrDefaultsMessage(self, message, h) ==
  IF ~self.ok
  THEN IF typeof(self.error) = "string" \/ typeof(self.error) = "undefined"
       THEN LET text == OrElse(OrElse(message, self.error), Str(defaultMessage))
            IN [raised |-> TRUE, value |-> FreshError(text.s), heap |-> h,
                calls |-> <<>>]
       ELSE LET text == OrElse(message, Str(defaultMessage))
            IN [raised |-> TRUE, value |-> self.error,
                heap |-> [h EXCEPT ![self.error.n].message = text.s],
                calls |-> <<>>]
  ELSE [raised |-> FALSE, value |-> self.data, heap |-> h, calls |-> <<>>]

\* variant of throwErr that tests `typeof message === "string"` and
\* `typeof this.error === "string"` instead of truthiness
throwErrTypeofString(self, message, h) ==
  IF ~self.ok
  THEN IF typeof(self.error) = "string" \/ typeof(self.error) = "undefined"
       THEN LET text == IF typeof(message) = "string" THEN message
                        ELSE IF typeof(self.error) = "string" THEN self.error
                        ELSE Str(defaultMessage)
            IN [raised |-> TRUE, value |-> FreshError(text.s), heap |-> h,
                calls |-> <<>>]
       ELSE LET h2 == IF typeof(message) = "string"
                      THEN [h EXCEPT ![self.error.n].message = message.s]
                      ELSE h
            IN [raised |-> TRUE, value |-> self.error, heap |-> h2, calls |-> <<>>]
  ELSE [raised |-> FALSE, value |-> self.data, heap |-> h, calls |-> <<>>]

throwErr(self, message, h) ==
  IF ~self.ok
  THEN IF typeof(self.error) = "string" \/ typeof(self.error) = "undefined"
       THEN LET text == OrElse(OrElse(message, self.error), Str(defaultMessage))
            IN [raised |-> TRUE, value |-> FreshError(text.s), heap |-> h,
                calls |-> <<>>]
       ELSE LET h2 == IF Truthy(message)
                      THEN [h EXCEPT ![self.error.n].message = message.s]
                      ELSE h
            IN [raised |-> TRUE, value |-> self.error, heap |-> h2, calls |-> <<>>]
  ELSE [raised |-> FALSE, value |-> self.data, heap |-> h, calls |-> <<>>]

\* variant of elseDo that calls back without handing over the error
elseDoNoArg(self, callback, h) ==
  IF self.ok
  THEN [raised |-> FALSE, value |-> self.data, heap |-> h, calls |-> <<>>]
  ELSE [raised |-> FALSE, value |-> Call(callback, Undefined), heap |-> h,
        calls |-> <<[cb |-> callback, arg |-> Undefined,
                     ret |-> Call(callback, Undefined)]>>]

elseDo(self, callback, h) ==
  IF self.ok
  THEN [raised |-> FALSE, value |-> self.data, heap |-> h, calls |-> <<>>]
  ELSE [raised |-> FALSE, value |-> Call(callback, self.error), heap |-> h,
        calls |-> <<[cb |-> callback, arg |-> self.error,
                     ret |-> Call(callback, self.error)]>>]

\* variant of or written as `this.data || orValue`
orFalsy(self, orValue, h) ==
  IF self.ok /\ Truthy(self.data)
  THEN [raised |-> FALSE, value |-> self.data, heap |-> h, calls |-> <<>>]
  ELSE [raised |-> FALSE, value |-> orValue, heap |-> h, calls |-> <<>>]

\* variant of or that rethrows the error of a Failure Result
orRaises(self, orValue, h) ==
  IF self.ok
  THEN [raised |-> FALSE, value |-> self.data, heap |-> h, calls |-> <<>>]
  ELSE [raised |-> TRUE, value |-> self.error, heap |-> h, calls |-> <<>>]

or(self, orValue, h) ==
  IF self.ok
  THEN [raised |-> FALSE, value |-> self.data, heap |-> h, calls |-> <<>>]
  ELSE [raised |-> FALSE, value |-> orValue, heap |-> h, calls |-> <<>>]

\* variant of and without the `if (this.ok)` guard
andAlways(self, callback, h) ==
  LET d == IF self.ok THEN self.data ELSE Undefined
  IN [raised |-> FALSE, value |-> Undefined, heap |-> h,
      calls |-> <<[cb |-> callback, arg |-> d, ret |-> Call(callback, d)]>>]

and(self, callback, h) ==
  IF self.ok
  THEN [raised |-> FALSE, value |-> Undefined, heap |-> h,
        calls |-> <<[cb |-> callback, arg |-> self.data,
                     ret |-> Call(callback, self.data)]>>]
  ELSE [raised |-> FALSE, value |-> Undefined, heap |-> h, calls |-> <<>>]

\* ---- state ----
\* overridden is a history variable: for each error object, the latest
\* override string handed to throw on a Failure Result wrapping it (Undefined
\* when there was none).  Only SpecH records it.
VARIABLES heap, results, last, overridden
vars == <<heap, results, last, overridden>>

NoCall == [op |-> "none", self |-> 0, arg |-> Undefined,
           raised |-> FALSE, value |-> Undefined, calls |-> <<>>]

Init ==
  /\ heap = [o \in Addrs |-> NoObj]
  /\ results = <<>>
  /\ last = NoCall
  /\ overridden = [o \in Addrs |-> Undefined]

Refs == {Ref(o) : o \in Live(heap)}
DataValues == {Undefined, Num(123)} \cup Refs
ErrorValues == {Undefined} \cup {Str(s) : s \in Strings} \cup Refs
Messages == {Undefined} \cup {Str(s) : s \in Overrides}
OrValues == {Undefined, Num(100)}

\* the caller builds an error object: new Error(text)
NewError(text) ==
  /\ Live(heap) /= Addrs
  /\ heap' = [heap EXCEPT ![Fresh(heap)] = NewErrorObj(text)]
  /\ last' = NoCall
  /\ UNCHANGED <<results, overridden>>

CallOk(v) ==
  /\ Len(results) < MaxResults
  /\ results' = Append(results, Ok(v))
  /\ last' = [NoCall EXCEPT !.op = "Ok", !.self = Len(results) + 1, !.arg = v]
  /\ UNCHANGED <<heap, overridden>>

CallErr(e) ==
  /\ Len(results) < MaxResults
  /\ results' = Append(results, Err(e))
  /\ last' = [NoCall EXCEPT !.op = "Err", !.self = Len(results) + 1, !.arg = e]
  /\ UNCHANGED <<heap, overridden>>

Record(op, i, arg, out) ==
  /\ heap' = out.heap
  /\ last' = [op |-> op, self |-> i, arg |-> arg, raised |-> out.raised,
              value |-> out.value, calls |-> out.calls]
  /\ UNCHANGED results

CallThrow(i, m) ==
  /\ Record("throw", i, m, throwErr(results[i], m, heap))
  /\ UNCHANGED overridden

CallElse(i, cb) ==
  /\ Record("else", i, Str(cb), elseDo(results[i], cb, heap))
  /\ UNCHANGED overridden

CallOr(i, f) ==
  /\ Record("or", i, f, or(results[i], f, heap))
  /\ UNCHANGED overridden

CallAnd(i, cb) ==
  /\ Record("and", i, Str(cb), and(results[i], cb, heap))
  /\ UNCHANGED overridden

\* the override string of this call, noted against the error object of self
Noted(ov, self, message) ==
  IF ~self.ok /\ typeof(self.error) = "object" /\ typeof(message) = "string"
  THEN [ov EXCEPT ![self.error.n] = message]
  ELSE ov

\* CallThrow, with the override noted in the history variable
CallThrowH(i, m) ==
  /\ Record("throw", i, m, throwErr(results[i], m, heap))
  /\ overridden' = Noted(overridden, results[i], m)

Next ==
  \/ \E s \in Texts : NewError(s)
  \/ \E v \in DataValues : CallOk(v)
  \/ \E e \in ErrorValues : CallErr(e)
  \/ \E i \in 1..Len(results), m \in Messages : CallThrow(i, m)
  \/ \E i \in 1..Len(results), cb \in Callbacks : CallElse(i, cb)
  \/ \E i \in 1..Len(results), f \in OrValues : CallOr(i, f)
  \/ \E i \in 1..Len(results), cb \in Callbacks : CallAnd(i, cb)

Spec == Init /\ [][Next]_vars

NextH ==
  \/ \E s \in Texts : NewError(s)
  \/ \E v \in DataValues : CallOk(v)
  \/ \E e \in ErrorValues : CallErr(e)
  \/ \E i \in 1..Len(results), m \in Messages : CallThrowH(i, m)
  \/ \E i \in 1..Len(results), cb \in Callbacks : CallElse(i, cb)
  \/ \E i \in 1..Len(results), f \in OrValues : CallOr(i, f)
  \/ \E i \in 1..Len(results), cb \in Callbacks : CallAnd(i, cb)

\* Spec with the history of overrides recorded
SpecH == Init /\ [][NextH]_vars

\* ---- properties ----
\* the message of a raised error object
MessageOf(v, h) == IF v.n \in Addrs THEN h[v.n].message ELSE v.s
Self == results[last.self]
SelfNext == results'[last'.self]

\* C1: after Ok(v) the Result built has ok = true, its data is v itself and
\* it has no error field.
C1_OkWrapsValue ==
  last.op = "Ok" =>
    /\ Self.ok = TRUE
    /\ Self.data = last.arg
    /\ "data" \in DOMAIN Self
    /\ "error" \notin DOMAIN Self

C1_Witness ==
  /\ last.op = "Ok"
  /\ Len(results) = 2
  /\ results[1].ok /\ results[1].data = Undefined
  /\ typeof(last.arg) = "object"

\* C2: after Err(e) the Result built has ok = false, its error is e itself
\* and it has no data field.
C2_ErrWrapsError ==
  last.op = "Err" =>
    /\ Self.ok = FALSE
    /\ Self.error = last.arg
    /\ "error" \in DOMAIN Self
    /\ "data" \notin DOMAIN Self

C2_Witness ==
  /\ last.op = "Err"
  /\ Len(results) = 2
  /\ ~results[1].ok /\ results[1].error = Undefined
  /\ typeof(last.arg) = "object"

\* C3: throw on a Success Result returns its data and never raises, with or
\* without an override message.
C3_ThrowOnOkReturns ==
  (last.op = "throw" /\ Self.ok) =>
    /\ ~last.raised
    /\ last.value = Self.data

C3_Witness ==
  /\ last.op = "throw"
  /\ Self.ok
  /\ Self.data = Num(123)
  /\ last.arg = Str("My Custom Message")
  /\ ~last.raised

\* C4: throw(m) with any override string m on any Failure Result raises an
\* error whose message is exactly m.
C4_OverrideAlwaysUsed ==
  (last.op = "throw" /\ ~Self.ok /\ typeof(last.arg) = "string") =>
    /\ last.raised
    /\ typeof(last.value) = "object"
    /\ MessageOf(last.value, heap) = last.arg.s

\* the message the specification's priority order resolves to
C5_Resolved(message, error) ==
  IF typeof(message) = "string" THEN message.s
  ELSE IF typeof(error) = "string" THEN error.s
  ELSE defaultMessage

\* C5: throw on a Failure Result whose error is absent or a string raises a
\* newly created error whose message is the override if provided, else the
\* string error if present, else the default text.
C5_ResolutionOrder ==
  [][(last'.op = "throw" /\ ~SelfNext.ok
        /\ typeof(SelfNext.error) \in {"string", "undefined"}) =>
      /\ last'.raised
      /\ typeof(last'.value) = "object"
      /\ last'.value.n \notin Addrs
      /\ MessageOf(last'.value, heap') = C5_Resolved(last'.arg, SelfNext.error)
      /\ heap' = heap
    ]_vars

\* C6: throw(m) with an override string m on Err(e), e an error object,
\* overwrites e.message with m, raises e itself and leaves the other fields
\* and objects alone.
C6_OverrideMutatesInPlace ==
  [][(last'.op = "throw" /\ ~SelfNext.ok /\ typeof(SelfNext.error) = "object"
        /\ typeof(last'.arg) = "string") =>
      /\ last'.raised
      /\ last'.value = SelfNext.error
      /\ heap' = [heap EXCEPT ![SelfNext.error.n].message = last'.arg.s]
    ]_vars

\* C7: throw() without an override on Err(e), e an error object, raises e
\* itself and changes no field of any object.
C7_NoOverrideRaisesUnmodified ==
  [][(last'.op = "throw" /\ ~SelfNext.ok /\ typeof(SelfNext.error) = "object"
        /\ last'.arg = Undefined) =>
      /\ last'.raised
      /\ last'.value = SelfNext.error
      /\ heap' = heap
    ]_vars

C7_Witness ==
  /\ last.op = "throw"
  /\ last.arg = Undefined
  /\ ~Self.ok
  /\ typeof(Self.error) = "object"
  /\ last.raised
  /\ last.value = Self.error
  /\ heap[Self.error.n].message = "Couldn't convert abc to number"

\* C8: or returns the data of a Success Result and the fallback of a Failure
\* Result, never raises, invokes nothing and changes no object and no Result.
C8_OrReturnsDataOrFallback ==
  [][last'.op = "or" =>
      /\ ~last'.raised
      /\ last'.value = (IF SelfNext.ok THEN SelfNext.data ELSE last'.arg)
      /\ last'.calls = <<>>
      /\ heap' = heap
      /\ results' = results
    ]_vars

C8_Witness ==
  /\ last.op = "or"
  /\ Len(results) = 2
  /\ results[1].ok /\ results[1].data = Undefined
  /\ ~results[2].ok /\ typeof(results[2].error) = "object"
  /\ last.self = 2
  /\ last.arg = Num(100)
  /\ last.value = Num(100)

\* C9: else on a Success Result returns its data without invoking the
\* callback; on a Failure Result it invokes the callback exactly once with
\* the error itself and returns what the callback returned.
C9_ElseCallsBackOnFailure ==
  last.op = "else" =>
    /\ ~last.raised
    /\ IF Self.ok
       THEN /\ last.calls = <<>>
            /\ last.value = Self.data
       ELSE /\ Len(last.calls) = 1
            /\ last.calls[1].cb = last.arg.s
            /\ last.calls[1].arg = Self.error
            /\ last.value = Call(last.arg.s, Self.error)

C9_Witness ==
  /\ last.op = "else"
  /\ ~Self.ok
  /\ Self.error = Str("Low")
  /\ last.arg = Str("lowOrHigh")
  /\ Len(last.calls) = 1
  /\ last.value = Num(0)

\* C10: and on a Success Result invokes the callback exactly once with the
\* data; on a Failure Result it invokes nothing; either way it returns
\* nothing.
C10_AndCallsBackOnSuccess ==
  last.op = "and" =>
    /\ ~last.raised
    /\ last.value = Undefined
    /\ IF Self.ok
       THEN /\ Len(last.calls) = 1
            /\ last.calls[1].cb = last.arg.s
            /\ last.calls[1].arg = Self.data
       ELSE last.calls = <<>>

C10_Witness ==
  /\ last.op = "and"
  /\ Self.ok
  /\ Self.data = Undefined
  /\ last.arg = Str("lowOrHigh")
  /\ Len(last.calls) = 1
  /\ last.calls[1].ret = Num(100)
  /\ last.value = Undefined

Accessors == {"throw", "else", "or", "and"}

\* C11: nothing but throw on a Failure Result raises: Ok, Err, or, else and
\* and never raise, whatever the error shape, and throw on a Success Result
\* does not raise either.
C11_OnlyThrowOnFailureRaises ==
  /\ last.op \in {"none", "Ok", "Err", "or", "else", "and"} => ~last.raised
  /\ last.raised => (last.op = "throw" /\ ~Self.ok)

C11_Witness ==
  /\ last.op = "else"
  /\ Len(results) = 2
  /\ ~results[1].ok /\ results[1].error = Str("Low")
  /\ ~results[2].ok /\ typeof(results[2].error) = "object"
  /\ last.self = 2
  /\ ~last.raised

\* C12: no step changes a Result once built; an accessor step changes nothing
\* but the message field of an error object, and only throw with an override
\* string on a Failure Result wrapping that object changes it.
C12_FrameOfAccessors ==
  [][/\ \A i \in 1..Len(results) : results'[i] = results[i]
     /\ last'.op \in Accessors =>
          /\ results' = results
          /\ \A o \in Addrs :
               heap'[o] /= heap[o] =>
                 /\ last'.op = "throw"
                 /\ typeof(last'.arg) = "string"
                 /\ ~SelfNext.ok
                 /\ SelfNext.error = Ref(o)
                 /\ heap'[o] = [heap[o] EXCEPT !.message = last'.arg.s]
    ]_vars

C12_Witness ==
  /\ last.op = "throw"
  /\ last.raised
  /\ last.arg = Str("My Custom Message")
  /\ Len(results) = 2
  /\ results[1].ok
  /\ last.self = 2
  /\ typeof(Self.error) = "object"
  /\ last.value = Self.error
  /\ heap[Self.error.n].message = "My Custom Message"
  /\ \E o \in Live(heap) : heap[o].message = "Couldn't convert abc to number"

\* what throw raises on a Failure Result when no override is in effect
C14_Unoverridden(error) ==
  IF typeof(error) = "object" THEN error
  ELSE IF typeof(error) = "string" /\ error.s /= "" THEN FreshError(error.s)
  ELSE FreshError(defaultMessage)

C13_OverridePersists ==
  \A o \in Live(heap) :
    IF typeof(overridden[o]) = "string"
    THEN /\ heap[o].message = overridden[o].s
         /\ (last.op = "else" /\ ~Self.ok /\ Self.error = Ref(o)) =>
              /\ Len(last.calls) = 1
              /\ last.calls[1].arg = Ref(o)
              /\ MessageOf(last.calls[1].arg, heap) = overridden[o].s
         /\ (last.op = "throw" /\ last.arg = Undefined
               /\ ~Self.ok /\ Self.error = Ref(o)) =>
              /\ last.value = Ref(o)
              /\ MessageOf(last.value, heap) = overridden[o].s
    ELSE heap[o].message \in Texts
====
